---- MODULE Spec2Model ----
(***************************************************************************)
(* veh: the event-loop closure of src/main.rs as a state machine.          *)
(*                                                                         *)
(* One action per arm of the `match event` in main(): Resumed, Suspended   *)
(* and the arms of the inner `match event` on a WindowEvent.  The view     *)
(* transform is a kurbo Affine, kept as its six coefficients; the          *)
(* coefficients are exact rationals <<numerator, denominator>> in lowest   *)
(* terms.  Option<T> is a sequence of length 0 (None) or 1 (Some).         *)
(***************************************************************************)
EXTENDS Integers, Sequences, FiniteSets, TLC

(***************************************************************************)
(* Bounds of the model.                                                    *)
(***************************************************************************)
\* number of events the event loop delivers in one run
MaxEvents == 4
\* number of wheel events among them that reach the zoom
MaxWheel == 2
\* number of wgpu devices the render context may come to hold
MaxDevices == 2

(***************************************************************************)
(* Program constants.                                                      *)
(***************************************************************************)
\* create_winit_window: LogicalSize::new(1044, 800)
DefaultWidth == 1044
DefaultHeight == 800
\* MouseWheel: const BASE: f64 = 1.05, as the fraction BaseNum / BaseDen
BaseNum == 21
BaseDen == 20
\* MouseWheel: const PIXELS_PER_LINE: f64 = 20.0
PIXELS_PER_LINE == 20
\* KeyboardInput: the nudge distance of Affine::translate((0.0, -10.0)) etc.
NudgeStep == 10
\* f64: 1.05^e rounds to 0.0 for every e <= -PowfUnderflow (1.05^-15273 < 2^-1075)
PowfUnderflow == 15273

(***************************************************************************)
(* Option<T>                                                               *)
(***************************************************************************)
None == <<>>
Some(x) == <<x>>
IsSome(o) == Len(o) = 1
Unwrap(o) == o[1]

(***************************************************************************)
(* f64 arithmetic, exact: a number is <<n, d>> with d > 0 and gcd(n,d) = 1 *)
(***************************************************************************)
Abs(n) == IF n < 0 THEN -n ELSE n

RECURSIVE GCD(_, _)
GCD(a, b) == IF b = 0 THEN a ELSE GCD(b, a % b)

Rat(n, d) ==
    LET s == IF d < 0 THEN -1 ELSE 1
        g == GCD(Abs(n), Abs(d))
    IN  <<(s * n) \div g, (s * d) \div g>>

F64(n) == <<n, 1>>
Zero == F64(0)
One == F64(1)

RAdd(x, y) ==
    LET g == GCD(x[2], y[2])
    IN  Rat(x[1] * (y[2] \div g) + y[1] * (x[2] \div g), (x[2] \div g) * y[2])
RNeg(x) == <<-x[1], x[2]>>
RSub(x, y) == RAdd(x, RNeg(y))
RMul(x, y) ==
    LET g == GCD(Abs(x[1]), y[2])
        h == GCD(Abs(y[1]), x[2])
    IN  Rat((x[1] \div g) * (y[1] \div h), (x[2] \div h) * (y[2] \div g))
RDiv(x, y) == Rat(x[1] * y[2], x[2] * y[1])
RLess(x, y) == x[1] * y[2] < y[1] * x[2]
\* f64::min
RMin(x, y) == IF RLess(y, x) THEN y ELSE x

RECURSIVE RPow(_, _)
RPow(x, k) == IF k = 0 THEN One ELSE RMul(x, RPow(x, k - 1))

\* BASE.powf(exponent) for a whole exponent: exact, except that the f64
\* result underflows to 0.0 when the exponent is at or below -PowfUnderflow
Powf(exponent) ==
    IF exponent <= -PowfUnderflow THEN Zero
    ELSE IF exponent >= 0 THEN RPow(Rat(BaseNum, BaseDen), exponent)
    ELSE RPow(Rat(BaseDen, BaseNum), -exponent)

(***************************************************************************)
(* kurbo::Vec2 and kurbo::Affine                                           *)
(***************************************************************************)
Vec2(x, y) == <<x, y>>
VecSub(p, q) == <<RSub(p[1], q[1]), RSub(p[2], q[2])>>
VecNeg(p) == <<RNeg(p[1]), RNeg(p[2])>>

\* Affine::IDENTITY
AffineIdentity == <<One, Zero, Zero, One, Zero, Zero>>
\* Affine::translate
AffineTranslate(v) == <<One, Zero, Zero, One, v[1], v[2]>>
\* Affine::scale
AffineScale(s) == <<s, Zero, Zero, s, Zero, Zero>>
\* impl Mul for Affine:  (A * B)(p) = A(B(p))
AffineMul(A, B) ==
    << RAdd(RMul(A[1], B[1]), RMul(A[3], B[2])),
       RAdd(RMul(A[2], B[1]), RMul(A[4], B[2])),
       RAdd(RMul(A[1], B[3]), RMul(A[3], B[4])),
       RAdd(RMul(A[2], B[3]), RMul(A[4], B[4])),
       RAdd(RAdd(RMul(A[1], B[5]), RMul(A[3], B[6])), A[5]),
       RAdd(RAdd(RMul(A[2], B[5]), RMul(A[4], B[6])), A[6]) >>
\* impl Mul<Point> for Affine
AffineApply(A, p) ==
    << RAdd(RAdd(RMul(A[1], p[1]), RMul(A[3], p[2])), A[5]),
       RAdd(RAdd(RMul(A[2], p[1]), RMul(A[4], p[2])), A[6]) >>
\* Affine::determinant
AffineDeterminant(A) == RSub(RMul(A[1], A[4]), RMul(A[2], A[3]))

(***************************************************************************)
(* f64 as the machine computes it: IEEE-754 binary64, bit for bit.         *)
(* A natural number is the sequence of its base-2^15 limbs, least          *)
(* significant first, with no leading zero limb (zero is <<>>); a double   *)
(* is [sign, mant, exp] of value sign * mant * 2^exp with mant odd         *)
(* (sign = 0, mant = <<>> for zero).  Every operation rounds to nearest,   *)
(* ties to even, at 53 bits.  The exponent range is not modelled: no       *)
(* value of a run leaves it.                                               *)
(***************************************************************************)
\* bits of the significand of an f64
DblMantissaBits == 53
LimbBits == 15
LimbBase == 2^LimbBits

RECURSIVE BigNorm(_)
BigNorm(x) ==
    IF x = <<>> \/ x[Len(x)] # 0 THEN x ELSE BigNorm(SubSeq(x, 1, Len(x) - 1))

RECURSIVE BigFromNat(_)
BigFromNat(n) == IF n = 0 THEN <<>> ELSE <<n % LimbBase>> \o BigFromNat(n \div LimbBase)

BigLimb(x, i) == IF i <= Len(x) THEN x[i] ELSE 0

RECURSIVE BigAddFrom(_, _, _, _)
BigAddFrom(x, y, i, carry) ==
    IF i > Len(x) /\ i > Len(y)
    THEN IF carry = 0 THEN <<>> ELSE <<carry>>
    ELSE LET t == BigLimb(x, i) + BigLimb(y, i) + carry
         IN  <<t % LimbBase>> \o BigAddFrom(x, y, i + 1, t \div LimbBase)
BigAdd(x, y) == BigAddFrom(x, y, 1, 0)

\* x - y for x >= y
RECURSIVE BigSubFrom(_, _, _, _)
BigSubFrom(x, y, i, borrow) ==
    IF i > Len(x) THEN <<>>
    ELSE LET t == x[i] - BigLimb(y, i) - borrow
         IN  IF t < 0 THEN <<t + LimbBase>> \o BigSubFrom(x, y, i + 1, 1)
             ELSE <<t>> \o BigSubFrom(x, y, i + 1, 0)
BigSub(x, y) == BigNorm(BigSubFrom(x, y, 1, 0))

\* -1, 0, 1 as x < y, x = y, x > y
RECURSIVE BigCmpFrom(_, _, _)
BigCmpFrom(x, y, i) ==
    IF i = 0 THEN 0
    ELSE IF x[i] < y[i] THEN -1
    ELSE IF x[i] > y[i] THEN 1
    ELSE BigCmpFrom(x, y, i - 1)
BigCmp(x, y) ==
    IF Len(x) < Len(y) THEN -1
    ELSE IF Len(x) > Len(y) THEN 1
    ELSE BigCmpFrom(x, y, Len(x))

\* x * k for 0 <= k <= LimbBase
RECURSIVE BigMulSmallFrom(_, _, _, _)
BigMulSmallFrom(x, k, i, carry) ==
    IF i > Len(x)
    THEN IF carry = 0 THEN <<>> ELSE <<carry % LimbBase>> \o
                                     (IF carry \div LimbBase = 0 THEN <<>> ELSE <<carry \div LimbBase>>)
    ELSE LET t == x[i] * k + carry
         IN  <<t % LimbBase>> \o BigMulSmallFrom(x, k, i + 1, t \div LimbBase)
BigMulSmall(x, k) == BigNorm(BigMulSmallFrom(x, k, 1, 0))

\* x \div k for 0 < k <= LimbBase, from the most significant limb
RECURSIVE BigDivSmallFrom(_, _, _, _)
BigDivSmallFrom(x, k, i, rem) ==
    IF i = 0 THEN <<>>
    ELSE LET t == rem * LimbBase + x[i]
         IN  BigDivSmallFrom(x, k, i - 1, t % k) \o <<t \div k>>
BigDivSmall(x, k) == BigNorm(BigDivSmallFrom(x, k, Len(x), 0))

Zeros(n) == [i \in 1..n |-> 0]

\* x * 2^n and x \div 2^n
BigShl(x, n) ==
    IF x = <<>> THEN <<>>
    ELSE Zeros(n \div LimbBits) \o BigMulSmall(x, 2^(n % LimbBits))
BigShr(x, n) ==
    IF n \div LimbBits >= Len(x) THEN <<>>
    ELSE BigDivSmall(SubSeq(x, n \div LimbBits + 1, Len(x)), 2^(n % LimbBits))

RECURSIVE BigMulFrom(_, _, _)
BigMulFrom(x, y, i) ==
    IF i > Len(y) THEN <<>>
    ELSE BigAdd(Zeros(i - 1) \o BigMulSmall(x, y[i]), BigMulFrom(x, y, i + 1))
BigMul(x, y) == IF x = <<>> \/ y = <<>> THEN <<>> ELSE BigNorm(BigMulFrom(x, y, 1))

RECURSIVE NatBitLen(_)
NatBitLen(n) == IF n = 0 THEN 0 ELSE 1 + NatBitLen(n \div 2)
BigBitLen(x) == IF x = <<>> THEN 0 ELSE (Len(x) - 1) * LimbBits + NatBitLen(x[Len(x)])

BigIsOdd(x) == x # <<>> /\ x[1] % 2 = 1
\* bit i of x, bit 0 the least significant
BigBit(x, i) == (BigLimb(x, i \div LimbBits + 1) \div 2^(i % LimbBits)) % 2

\* number of trailing zero bits of x # 0
RECURSIVE BigTrailingZeros(_, _)
BigTrailingZeros(x, i) == IF BigBit(x, i) = 1 THEN i ELSE BigTrailingZeros(x, i + 1)

\* the exact value sign * mant * 2^exp, brought to an odd mant
Exact(sign, mant, exp) ==
    IF mant = <<>> \/ sign = 0 THEN [sign |-> 0, mant |-> <<>>, exp |-> 0]
    ELSE LET tz == BigTrailingZeros(mant, 0)
         IN  [sign |-> sign, mant |-> BigShr(mant, tz), exp |-> exp + tz]

XZero == Exact(0, <<>>, 0)
XInt(n) == IF n < 0 THEN Exact(-1, BigFromNat(-n), 0) ELSE Exact(1, BigFromNat(n), 0)
XNeg(x) == [x EXCEPT !.sign = -x.sign]

\* exact sum and product
XAdd(x, y) ==
    IF x.sign = 0 THEN y
    ELSE IF y.sign = 0 THEN x
    ELSE LET e == IF x.exp < y.exp THEN x.exp ELSE y.exp
             mx == BigShl(x.mant, x.exp - e)
             my == BigShl(y.mant, y.exp - e)
             c == BigCmp(mx, my)
         IN  IF x.sign = y.sign THEN Exact(x.sign, BigAdd(mx, my), e)
             ELSE IF c = 0 THEN XZero
             ELSE IF c > 0 THEN Exact(x.sign, BigSub(mx, my), e)
             ELSE Exact(y.sign, BigSub(my, mx), e)
XSub(x, y) == XAdd(x, XNeg(y))
XMul(x, y) == Exact(x.sign * y.sign, BigMul(x.mant, y.mant), x.exp + y.exp)
XAbs(x) == [x EXCEPT !.sign = IF x.sign = 0 THEN 0 ELSE 1]
XLess(x, y) == XSub(x, y).sign < 0
XLeq(x, y) == XSub(x, y).sign <= 0
\* x * 2^n
XScale2(x, n) == IF x.sign = 0 THEN x ELSE [x EXCEPT !.exp = x.exp + n]

\* round to nearest, ties to even, at DblMantissaBits bits
DblRound(x) ==
    LET len == BigBitLen(x.mant)
        k == len - DblMantissaBits
        q == BigShr(x.mant, k)
        rem == BigSub(x.mant, BigShl(q, k))
        c == BigCmp(rem, BigShl(<<1>>, k - 1))
        up == c > 0 \/ (c = 0 /\ BigIsOdd(q))
    IN  IF k <= 0 THEN x
        ELSE Exact(x.sign, IF up THEN BigAdd(q, <<1>>) ELSE q, x.exp + k)

DblFromInt(n) == DblRound(XInt(n))
DblNeg(x) == XNeg(x)
DblAdd(x, y) == DblRound(XAdd(x, y))
DblSub(x, y) == DblRound(XSub(x, y))
DblMul(x, y) == DblRound(XMul(x, y))
\* x / y for a divisor y # 0 whose significand is below 2^15 (every divisor
\* of a run is a whole number of that size): the quotient to two bits more
\* than the significand, with a sticky bit for a non-zero remainder
DblDiv(x, y) ==
    IF x.sign = 0 THEN XZero
    ELSE LET s == DblMantissaBits + 2 + BigBitLen(y.mant) - BigBitLen(x.mant)
             k == IF s < 0 THEN 0 ELSE s
             n == BigShl(x.mant, k)
             q == BigDivSmall(n, y.mant[1])
             m == IF BigMulSmall(q, y.mant[1]) = n THEN BigShl(q, 1)
                  ELSE BigAdd(BigShl(q, 1), <<1>>)
         IN  DblRound(Exact(x.sign * y.sign, m, x.exp - y.exp - k - 1))
\* f64::min
DblMin(x, y) == IF XLess(y, x) THEN y ELSE x

\* kurbo::Vec2 and kurbo::Affine over f64
Vec64Sub(p, q) == <<DblSub(p[1], q[1]), DblSub(p[2], q[2])>>
Vec64Neg(p) == <<DblNeg(p[1]), DblNeg(p[2])>>
Affine64Identity ==
    <<DblFromInt(1), DblFromInt(0), DblFromInt(0), DblFromInt(1),
      DblFromInt(0), DblFromInt(0)>>
Affine64Translate(v) ==
    <<DblFromInt(1), DblFromInt(0), DblFromInt(0), DblFromInt(1), v[1], v[2]>>
Affine64Scale(s) ==
    <<s, DblFromInt(0), DblFromInt(0), s, DblFromInt(0), DblFromInt(0)>>
Affine64Mul(A, B) ==
    << DblAdd(DblMul(A[1], B[1]), DblMul(A[3], B[2])),
       DblAdd(DblMul(A[2], B[1]), DblMul(A[4], B[2])),
       DblAdd(DblMul(A[1], B[3]), DblMul(A[3], B[4])),
       DblAdd(DblMul(A[2], B[3]), DblMul(A[4], B[4])),
       DblAdd(DblAdd(DblMul(A[1], B[5]), DblMul(A[3], B[6])), A[5]),
       DblAdd(DblAdd(DblMul(A[2], B[5]), DblMul(A[4], B[6])), A[6]) >>

(***************************************************************************)
(* The inputs of a run                                                     *)
(***************************************************************************)
\* VehImage::size of the file named on the command line
DocSizes == {<<200, 100>>, <<100, 400>>}
\* window.inner_size() after the platform resized the window
WindowSizes == {<<0, 0>>, <<400, 300>>}
\* WindowEvent::CursorMoved positions
Positions == {<<0, 0>>, <<5, -3>>, <<300, 200>>}
\* the window ids events are addressed to: 1 is the first window created
EventWindowIds == {1, 2}
\* MouseScrollDelta: PixelDelta(delta) by delta.y and LineDelta(_, y) by y,
\* with whole exponents only
WheelDeltas ==
    { [type |-> "PixelDelta", y |-> PIXELS_PER_LINE],
      [type |-> "PixelDelta", y |-> -PIXELS_PER_LINE],
      [type |-> "LineDelta", y |-> 1],
      [type |-> "LineDelta", y |-> -1],
      [type |-> "LineDelta", y |-> -PowfUnderflow] }
MouseButtons == {"Left", "Right"}
ElementStates == {"Pressed", "Released"}
KeyCodes == {"Escape", "ArrowUp", "KeyK", "ArrowDown", "KeyJ",
             "ArrowLeft", "KeyH", "ArrowRight", "KeyL", "Space"}

(***************************************************************************)
(* State: the variables captured by the event-loop closure of main()       *)
(***************************************************************************)
VARIABLES
    render_state,   \* RenderState: RenderState_Suspended(cached_window) | Active(ActiveRenderState)
    renderers,      \* Vec<Option<Renderer>>: TRUE where a renderer is cached
    devices,        \* render_cx.devices.len()
    scene,          \* what the last redraw put in `scene`: None or Some([copies, transform])
    subscene,       \* number of copies of the document drawn into `subscene`
    control_flow,   \* the event loop's ControlFlow
    inner_size,     \* the window's physical size, window.inner_size()
    image,          \* the size of the document open_image() decodes
    windows,        \* number of windows created by create_winit_window
    surfaces,       \* number of surfaces created by create_surface
    decodes,        \* number of calls of open_image
    exiting,        \* event_loop.exit() was called
    crashed,        \* an expect()/unwrap() panicked
    ev,             \* the event handled in the last turn
    fx,             \* what the last turn asked of its collaborators
    pointer_left,   \* history: a CursorLeft was handled and no CursorMoved since
    suspended_transform, \* history: the transform of the session the last suspend ended
    nev,            \* number of events delivered
    nwheel,         \* number of wheel events that zoomed
    state64,        \* Spec64: the session with its transform in binary64
    nudges          \* Spec64 history: the direction keys last pressed in a row

vars == <<render_state, renderers, devices, scene, subscene, control_flow,
          inner_size, image, windows, surfaces, decodes, exiting, crashed,
          ev, fx, pointer_left, suspended_transform, nev, nwheel,
          state64, nudges>>

\* RenderState::Suspended(cached_window)
RenderState_Suspended(cached_window) == [tag |-> "Suspended", cached_window |-> cached_window]
\* mutant: a session is built with the button down
RenderState_ActiveButtonDown(surface, window, transform, prior_position, mouse_down) ==
    [tag |-> "Active", surface |-> surface, window |-> window,
     transform |-> transform, prior_position |-> prior_position,
     mouse_down |-> TRUE]

\* RenderState::Active(ActiveRenderState { surface, window, transform, prior_position, mouse_down })
RenderState_Active(surface, window, transform, prior_position, mouse_down) ==
    [tag |-> "Active", surface |-> surface, window |-> window,
     transform |-> transform, prior_position |-> prior_position,
     mouse_down |-> mouse_down]

\* the session of Spec64: RenderState with the transform as f64 computes it
RenderState64_Suspended == [tag |-> "Suspended"]
RenderState64_Active(transform, prior_position, mouse_down) ==
    [tag |-> "Active", transform |-> transform,
     prior_position |-> prior_position, mouse_down |-> mouse_down]

\* no direction key pressed yet: `keys` are the directions pressed in a row
\* and `before` the transform each press found
NoNudges == [keys |-> <<>>, before |-> <<>>]

IsActive == render_state.tag = "Active"
IsSuspended == render_state.tag = "Suspended"

\* mutant: every turn asks for a new window
NoFxCreatesWindow ==
    [request_redraw |-> FALSE, render |-> FALSE, exit |-> FALSE,
     create_window |-> TRUE, create_surface |-> FALSE, open_image |-> FALSE]

\* the requests one turn of the closure makes
NoFx == [request_redraw |-> FALSE, render |-> FALSE, exit |-> FALSE,
         create_window |-> FALSE, create_surface |-> FALSE, open_image |-> FALSE]

Event(kind, window_id, arg, handled) ==
    [kind |-> kind, window_id |-> window_id, arg |-> arg, handled |-> handled]

\* let mut render_state = RenderState::Suspended(None); renderers = vec![]; ...
Init ==
    /\ render_state = RenderState_Suspended(None)
    /\ renderers = <<>>
    /\ devices = 0
    /\ scene = None
    /\ subscene = 0
    /\ control_flow = "Poll"
    /\ inner_size = <<0, 0>>
    /\ image \in DocSizes
    /\ windows = 0
    /\ surfaces = 0
    /\ decodes = 0
    /\ exiting = FALSE
    /\ crashed = FALSE
    /\ ev = Event("Init", 0, None, FALSE)
    /\ fx = NoFx
    /\ pointer_left = FALSE
    /\ suspended_transform = None
    /\ nev = 0
    /\ nwheel = 0
    /\ state64 = RenderState64_Suspended
    /\ nudges = NoNudges

\* the event loop delivers events until it exits or the process panics
Running == ~exiting /\ ~crashed /\ nev < MaxEvents

(***************************************************************************)
(* Event::Resumed                                                          *)
(***************************************************************************)
\* renderers.resize_with(n, || None)
ResizeWith(v, n) == [i \in 1..n |-> IF i <= Len(v) THEN v[i] ELSE FALSE]

\* renderers[dev_id].get_or_insert_with(|| create_vello_renderer(..))
GetOrInsert(v, dev_id) == [v EXCEPT ![dev_id + 1] = TRUE]

\* mutant: the resume grows the cache and creates no renderer
ResumedRenderersNoInsert(v, ndevices, dev_id) == ResizeWith(v, ndevices)

\* the renderer cache after the resume created a surface on device dev_id
ResumedRenderers(v, ndevices, dev_id) == GetOrInsert(ResizeWith(v, ndevices), dev_id)

\* mutant: the resume fills the window, scaling by the larger of the two ratios
InitialTransformFill(size, img) ==
    LET image_width == F64(img[1])
        image_height == F64(img[2])
        x_scale == RDiv(F64(size[1]), image_width)
        y_scale == RDiv(F64(size[2]), image_height)
        scale == IF RLess(x_scale, y_scale) THEN y_scale ELSE x_scale
    IN  AffineMul(
          AffineMul(
            AffineMul(
              AffineTranslate(Vec2(RDiv(F64(size[1]), F64(2)), RDiv(F64(size[2]), F64(2)))),
              AffineScale(scale)),
            AffineTranslate(VecNeg(Vec2(RDiv(image_width, F64(2)), RDiv(image_height, F64(2)))))),
          AffineIdentity)

\* the fit-to-window transform of a resume
InitialTransform(size, img) ==
    LET image_width == F64(img[1])
        image_height == F64(img[2])
        x_scale == RDiv(F64(size[1]), image_width)
        y_scale == RDiv(F64(size[2]), image_height)
        scale == RMin(x_scale, y_scale)
    IN  AffineMul(
          AffineMul(
            AffineMul(
              AffineTranslate(Vec2(RDiv(F64(size[1]), F64(2)), RDiv(F64(size[2]), F64(2)))),
              AffineScale(scale)),
            AffineTranslate(VecNeg(Vec2(RDiv(image_width, F64(2)), RDiv(image_height, F64(2)))))),
          AffineIdentity)

\* cached_window.take().unwrap_or_else(|| create_winit_window(event_loop)):
\* a new window gets the next window id
ResumedWindow(cached_window) ==
    IF IsSome(cached_window) THEN Unwrap(cached_window) ELSE windows + 1

\* add_image_to_subscene(&mut subscene, &image): draws the document into subscene
AddImageToSubscene(n) == n + 1

Resumed ==
    /\ Running
    /\ nev' = nev + 1
    /\ UNCHANGED <<state64, nudges>>
    /\ IF ~IsSuspended
       THEN \* let RenderState::Suspended(cached_window) = .. else { return; }
            /\ ev' = Event("Resumed", 0, None, FALSE)
            /\ fx' = NoFx
            /\ UNCHANGED <<render_state, renderers, devices, scene, subscene,
                           control_flow, inner_size, image, windows, surfaces,
                           decodes, exiting, crashed, pointer_left, suspended_transform, nwheel>>
       ELSE LET cached_window == render_state.cached_window
                created == ~IsSome(cached_window)
                window == ResumedWindow(cached_window)
                size == IF created THEN <<DefaultWidth, DefaultHeight>> ELSE inner_size
            IN  /\ ev' = Event("Resumed", 0, None, TRUE)
                /\ windows' = IF created THEN windows + 1 ELSE windows
                /\ inner_size' = size
                /\ \E ok \in BOOLEAN :
                   \E dev_id \in 0..(IF devices < MaxDevices THEN devices ELSE devices - 1) :
                     IF ~ok
                     THEN \* .expect("Error creating surface")
                          /\ crashed' = TRUE
                          /\ render_state' = RenderState_Suspended(None)
                          /\ fx' = [NoFx EXCEPT !.create_window = created]
                          /\ UNCHANGED <<renderers, devices, scene, subscene,
                                         control_flow, image, surfaces, decodes,
                                         exiting, pointer_left, suspended_transform, nwheel>>
                     ELSE LET ndevices == IF dev_id = devices THEN devices + 1 ELSE devices
                              surface == [id |-> surfaces + 1, dev_id |-> dev_id,
                                          width |-> size[1], height |-> size[2]]
                          IN  /\ devices' = ndevices
                              /\ surfaces' = surfaces + 1
                              /\ renderers' = ResumedRenderers(renderers, ndevices, dev_id)
                              /\ decodes' = decodes + 1
                              /\ subscene' = AddImageToSubscene(subscene)
                              /\ render_state' = RenderState_Active(surface, window,
                                                        InitialTransform(size, image),
                                                        None, FALSE)
                              /\ control_flow' = "Poll"
                              /\ fx' = [NoFx EXCEPT !.create_window = created,
                                                    !.create_surface = TRUE,
                                                    !.open_image = TRUE]
                              /\ UNCHANGED <<scene, image, exiting, crashed,
                                             pointer_left, suspended_transform, nwheel>>

(***************************************************************************)
(* Event::Suspended                                                        *)
(***************************************************************************)
\* mutant: the suspend drops the window with the surface
SuspendedStateDropsWindow(state) == RenderState_Suspended(None)

\* render_state = RenderState::Suspended(Some(state.window.clone()))
SuspendedState(state) == RenderState_Suspended(Some(state.window))

Suspended ==
    /\ Running
    /\ nev' = nev + 1
    /\ UNCHANGED <<state64, nudges>>
    /\ ev' = Event("Suspended", 0, None, IsActive)
    /\ render_state' = IF IsActive THEN SuspendedState(render_state) ELSE render_state
    /\ control_flow' = "Wait"
    /\ fx' = NoFx
    /\ suspended_transform' =
         IF IsActive THEN Some(render_state.transform) ELSE suspended_transform
    /\ UNCHANGED <<renderers, devices, scene, subscene, inner_size, image,
                   windows, surfaces, decodes, exiting, crashed, pointer_left,
                   nwheel>>

(***************************************************************************)
(* Event::WindowEvent { event, window_id }                                 *)
(***************************************************************************)
\* mutant: the guard does not compare window ids
AcceptsAnyWindow(window_id) == IsActive

\* RenderState::Active(state) if state.window.id() == window_id => state, _ => return
Accepts(window_id) == IsActive /\ render_state.window = window_id

\* the window the event is addressed to is the session's, live or cached
OwnWindow(window_id) ==
    \/ IsActive /\ render_state.window = window_id
    \/ IsSuspended /\ render_state.cached_window = Some(window_id)

\* the `_ => return` of the guard: nothing is read or written
Dropped ==
    /\ fx' = NoFx
    /\ UNCHANGED <<render_state, renderers, devices, scene, subscene,
                   control_flow, image, windows, surfaces, decodes, exiting,
                   crashed, pointer_left, suspended_transform, nwheel>>

\* what every arm but Resized and RedrawRequested leaves alone
ArmFrame ==
    UNCHANGED <<renderers, devices, scene, subscene, control_flow, image,
                windows, surfaces, decodes, crashed>>

\* WindowEvent::MouseInput { state, button, .. }
MouseInputState(state, element_state, button) ==
    IF button = "Left"
    THEN [state EXCEPT !.mouse_down = (element_state = "Pressed")]
    ELSE state

MouseInput(window_id, element_state, button) ==
    /\ Running
    /\ nev' = nev + 1
    /\ UNCHANGED <<state64, nudges>>
    /\ ev' = Event("MouseInput", window_id, <<element_state, button>>, Accepts(window_id))
    /\ UNCHANGED inner_size
    /\ IF Accepts(window_id)
       THEN /\ render_state' = MouseInputState(render_state, element_state, button)
            /\ fx' = NoFx
            /\ ArmFrame
            /\ UNCHANGED <<exiting, pointer_left, suspended_transform, nwheel>>
       ELSE Dropped

\* the exponent of a scroll delta
WheelExponent(delta) ==
    IF delta.type = "PixelDelta" THEN delta.y \div PIXELS_PER_LINE
    ELSE IF delta.type = "LineDelta" THEN delta.y
    ELSE 0

\* mutant: the zoom about the pivot is composed on the right of the transform
ZoomTransformOnRight(transform, prior_position, delta) ==
    AffineMul(transform,
      AffineMul(
        AffineMul(AffineTranslate(prior_position),
                  AffineScale(Powf(WheelExponent(delta)))),
        AffineTranslate(VecNeg(prior_position))))

\* translate(prior_position) * scale(BASE.powf(exponent)) * translate(-prior_position) * transform
ZoomTransform(transform, prior_position, delta) ==
    AffineMul(
      AffineMul(
        AffineMul(AffineTranslate(prior_position),
                  AffineScale(Powf(WheelExponent(delta)))),
        AffineTranslate(VecNeg(prior_position))),
      transform)

\* if let Some(prior_position) = render_state.prior_position
WheelZooms(state) == IsSome(state.prior_position)

\* WindowEvent::MouseWheel { delta, .. }: the state it leaves
MouseWheelState(state, delta) ==
    IF WheelZooms(state)
    THEN [state EXCEPT !.transform =
            ZoomTransform(state.transform, Unwrap(state.prior_position), delta)]
    ELSE state

\* mutant: request_redraw() after the `if let Some`, on every wheel event
MouseWheelFxAlways(state) == [NoFx EXCEPT !.request_redraw = TRUE]

\* WindowEvent::MouseWheel: request_redraw() inside the `if let Some`
MouseWheelFx(state) ==
    IF WheelZooms(state) THEN [NoFx EXCEPT !.request_redraw = TRUE] ELSE NoFx

MouseWheel(window_id, delta) ==
    /\ Running
    /\ (Accepts(window_id) /\ WheelZooms(render_state)) => nwheel < MaxWheel
    /\ nev' = nev + 1
    /\ UNCHANGED <<state64, nudges>>
    /\ ev' = Event("MouseWheel", window_id, delta, Accepts(window_id))
    /\ UNCHANGED inner_size
    /\ IF Accepts(window_id)
       THEN /\ render_state' = MouseWheelState(render_state, delta)
            /\ fx' = MouseWheelFx(render_state)
            /\ nwheel' = IF WheelZooms(render_state) THEN nwheel + 1 ELSE nwheel
            /\ ArmFrame
            /\ UNCHANGED <<exiting, pointer_left, suspended_transform>>
       ELSE Dropped

\* mutant: the pointer leave keeps the pivot
CursorLeftStateKeepsPivot(state) == state

\* WindowEvent::CursorLeft: render_state.prior_position = None
CursorLeftState(state) == [state EXCEPT !.prior_position = None]

CursorLeft(window_id) ==
    /\ Running
    /\ nev' = nev + 1
    /\ UNCHANGED <<state64, nudges>>
    /\ ev' = Event("CursorLeft", window_id, None, Accepts(window_id))
    /\ UNCHANGED inner_size
    /\ IF Accepts(window_id)
       THEN /\ render_state' = CursorLeftState(render_state)
            /\ pointer_left' = TRUE
            /\ fx' = NoFx
            /\ ArmFrame
            /\ UNCHANGED <<exiting, suspended_transform, nwheel>>
       ELSE Dropped

\* mutant: the drag translation is composed on the right of the transform
DragTransformOnRight(transform, position, prior) ==
    AffineMul(transform, AffineTranslate(VecSub(position, prior)))

\* Affine::translate(position - prior) * render_state.transform
DragTransform(transform, position, prior) ==
    AffineMul(AffineTranslate(VecSub(position, prior)), transform)

\* mutant: a move that drags keeps the old pivot
CursorMovedStateDragKeepsPivot(state, position) ==
    IF state.mouse_down /\ IsSome(state.prior_position)
    THEN [state EXCEPT !.transform =
            AffineMul(AffineTranslate(VecSub(position, Unwrap(state.prior_position))),
                      state.transform)]
    ELSE [state EXCEPT !.prior_position = Some(position)]

\* WindowEvent::CursorMoved { position, .. }: the state it leaves
CursorMovedState(state, position) ==
    [state EXCEPT
       !.transform = IF state.mouse_down /\ IsSome(state.prior_position)
                     THEN DragTransform(state.transform, position,
                                        Unwrap(state.prior_position))
                     ELSE state.transform,
       !.prior_position = Some(position)]

\* WindowEvent::CursorMoved: render_state.window.request_redraw()
CursorMovedFx(state) == [NoFx EXCEPT !.request_redraw = TRUE]

CursorMoved(window_id, p) ==
    /\ Running
    /\ nev' = nev + 1
    /\ UNCHANGED <<state64, nudges>>
    /\ ev' = Event("CursorMoved", window_id, p, Accepts(window_id))
    /\ UNCHANGED inner_size
    /\ IF Accepts(window_id)
       THEN /\ render_state' = CursorMovedState(render_state, Vec2(F64(p[1]), F64(p[2])))
            /\ pointer_left' = FALSE
            /\ fx' = CursorMovedFx(render_state)
            /\ ArmFrame
            /\ UNCHANGED <<exiting, suspended_transform, nwheel>>
       ELSE Dropped

\* the translation of a direction key, None for every other key
NudgeVector(keycode) ==
    IF keycode \in {"ArrowUp", "KeyK"} THEN Some(Vec2(Zero, F64(-NudgeStep)))
    ELSE IF keycode \in {"ArrowDown", "KeyJ"} THEN Some(Vec2(Zero, F64(NudgeStep)))
    ELSE IF keycode \in {"ArrowLeft", "KeyH"} THEN Some(Vec2(F64(-NudgeStep), Zero))
    ELSE IF keycode \in {"ArrowRight", "KeyL"} THEN Some(Vec2(F64(NudgeStep), Zero))
    ELSE None

\* mutant: the nudge translation is composed on the left of the transform
NudgeTransformOnLeft(transform, v) == AffineMul(AffineTranslate(v), transform)

\* render_state.transform * Affine::translate(v)
NudgeTransform(transform, v) == AffineMul(transform, AffineTranslate(v))

\* mutant: a direction key nudges without requesting a redraw
KeyPressFxNoRedraw(keycode) ==
    IF keycode = "Escape" THEN [NoFx EXCEPT !.exit = TRUE] ELSE NoFx

\* mutant: Escape asks for a redraw and not for the exit
KeyPressFxEscapeRedraws(keycode) ==
    IF keycode = "Escape" \/ IsSome(NudgeVector(keycode))
    THEN [NoFx EXCEPT !.request_redraw = TRUE]
    ELSE NoFx

\* the requests of a key press: exit for Escape, a redraw for a direction key
KeyPressFx(keycode) ==
    IF keycode = "Escape" THEN [NoFx EXCEPT !.exit = TRUE]
    ELSE IF IsSome(NudgeVector(keycode)) THEN [NoFx EXCEPT !.request_redraw = TRUE]
    ELSE NoFx

\* WindowEvent::KeyboardInput { event: KeyEvent { state: Pressed, physical_key: Code(keycode) } }
KeyboardInput(window_id, element_state, keycode) ==
    /\ Running
    /\ nev' = nev + 1
    /\ UNCHANGED <<state64, nudges>>
    /\ ev' = Event("KeyboardInput", window_id, <<element_state, keycode>>, Accepts(window_id))
    /\ UNCHANGED inner_size
    /\ IF Accepts(window_id)
       THEN /\ IF element_state = "Pressed"
               THEN /\ render_state' =
                         IF IsSome(NudgeVector(keycode))
                         THEN [render_state EXCEPT !.transform =
                                 NudgeTransform(render_state.transform,
                                                Unwrap(NudgeVector(keycode)))]
                         ELSE render_state
                    /\ fx' = KeyPressFx(keycode)
                    /\ exiting' = (keycode = "Escape")
               ELSE \* a release falls to the `_ => {}` arm
                    /\ fx' = NoFx
                    /\ UNCHANGED <<render_state, exiting>>
            /\ ArmFrame
            /\ UNCHANGED <<pointer_left, suspended_transform, nwheel>>
       ELSE Dropped

\* WindowEvent::CloseRequested => event_loop.exit()
CloseRequested(window_id) ==
    /\ Running
    /\ nev' = nev + 1
    /\ UNCHANGED <<state64, nudges>>
    /\ ev' = Event("CloseRequested", window_id, None, Accepts(window_id))
    /\ UNCHANGED inner_size
    /\ IF Accepts(window_id)
       THEN /\ exiting' = TRUE
            /\ fx' = [NoFx EXCEPT !.exit = TRUE]
            /\ ArmFrame
            /\ UNCHANGED <<render_state, pointer_left, suspended_transform, nwheel>>
       ELSE Dropped

\* render_cx.resize_surface(&mut render_state.surface, size.width, size.height)
ResizeSurface(surface, size) == [surface EXCEPT !.width = size[1], !.height = size[2]]

\* WindowEvent::Resized(_size): the platform has given the window the size
\* `size`; the arm reads it back with window.inner_size()
Resized(window_id, size) ==
    /\ Running
    /\ nev' = nev + 1
    /\ UNCHANGED <<state64, nudges>>
    /\ ev' = Event("Resized", window_id, size, Accepts(window_id))
    /\ inner_size' = IF OwnWindow(window_id) THEN size ELSE inner_size
    /\ IF Accepts(window_id)
       THEN /\ render_state' =
                 [render_state EXCEPT !.surface = ResizeSurface(@, inner_size')]
            /\ fx' = [NoFx EXCEPT !.request_redraw = TRUE]
            /\ ArmFrame
            /\ UNCHANGED <<exiting, pointer_left, suspended_transform, nwheel>>
       ELSE Dropped

\* renderers[surface.dev_id].as_mut().unwrap() does not panic
HasRenderer(v, surface) == surface.dev_id < Len(v) /\ v[surface.dev_id + 1]

\* scene.reset(); scene.append(&mut subscene, Some(render_state.transform))
RedrawScene(copies, transform) == Some([copies |-> copies, transform |-> transform])

\* WindowEvent::RedrawRequested
RedrawRequested(window_id) ==
    /\ Running
    /\ nev' = nev + 1
    /\ UNCHANGED <<state64, nudges>>
    /\ ev' = Event("RedrawRequested", window_id, None, Accepts(window_id))
    /\ UNCHANGED inner_size
    /\ IF Accepts(window_id)
       THEN /\ scene' = RedrawScene(subscene, render_state.transform)
            /\ \E texture_ok \in BOOLEAN :
                 \* get_current_texture().expect(..), renderers[..].unwrap(),
                 \* render_to_surface(..).expect(..)
                 IF texture_ok /\ HasRenderer(renderers, render_state.surface)
                 THEN /\ fx' = [NoFx EXCEPT !.render = TRUE]
                      /\ UNCHANGED crashed
                 ELSE /\ fx' = NoFx
                      /\ crashed' = TRUE
            /\ UNCHANGED <<render_state, renderers, devices, subscene,
                           control_flow, image, windows, surfaces, decodes,
                           exiting, pointer_left, suspended_transform, nwheel>>
       ELSE Dropped

\* every other WindowEvent (Focused, Moved, ..): the inner `_ => {}`
OtherWindowEvent(window_id) ==
    /\ Running
    /\ nev' = nev + 1
    /\ UNCHANGED <<state64, nudges>>
    /\ ev' = Event("Other", window_id, None, Accepts(window_id))
    /\ UNCHANGED inner_size
    /\ IF Accepts(window_id)
       THEN /\ fx' = NoFx
            /\ ArmFrame
            /\ UNCHANGED <<render_state, exiting, pointer_left, suspended_transform, nwheel>>
       ELSE Dropped

Next ==
    \/ Resumed
    \/ Suspended
    \/ \E w \in EventWindowIds, s \in ElementStates, b \in MouseButtons : MouseInput(w, s, b)
    \/ \E w \in EventWindowIds, d \in WheelDeltas : MouseWheel(w, d)
    \/ \E w \in EventWindowIds : CursorLeft(w)
    \/ \E w \in EventWindowIds, p \in Positions : CursorMoved(w, p)
    \/ \E w \in EventWindowIds, s \in ElementStates, k \in KeyCodes : KeyboardInput(w, s, k)
    \/ \E w \in EventWindowIds : CloseRequested(w)
    \/ \E w \in EventWindowIds, z \in WindowSizes : Resized(w, z)
    \/ \E w \in EventWindowIds : RedrawRequested(w)
    \/ \E w \in EventWindowIds : OtherWindowEvent(w)

Spec == Init /\ [][Next]_vars

(***************************************************************************)
(* Spec64: the transform of one Active session as f64 computes it.  The    *)
(* arms that read or write the transform, with every product and sum       *)
(* rounded as the machine rounds it; events are addressed to the session's *)
(* window.                                                                 *)
(***************************************************************************)
\* events delivered in a run of Spec64, and wheel events that zoom
MaxEvents64 == 7
MaxWheel64 == 1

\* WindowEvent::CursorMoved positions
Positions64 == {<<5, -3>>, <<300, 200>>}
\* MouseScrollDelta with exponent 1.0, the one non-zero exponent at which
\* powf is exact
WheelDeltas64 == { [type |-> "PixelDelta", y |-> PIXELS_PER_LINE],
                   [type |-> "LineDelta", y |-> 1] }
KeyCodes64 == {"ArrowUp", "ArrowDown", "ArrowLeft", "ArrowRight", "KeyK", "Space"}

\* const BASE: f64 = 1.05: the double nearest to 1.05
Base64 == DblDiv(DblFromInt(BaseNum), DblFromInt(BaseDen))

\* delta.y / PIXELS_PER_LINE, or y as f64
WheelExponent64(delta) ==
    IF delta.type = "PixelDelta"
    THEN DblDiv(DblFromInt(delta.y), DblFromInt(PIXELS_PER_LINE))
    ELSE IF delta.type = "LineDelta" THEN DblFromInt(delta.y)
    ELSE DblFromInt(0)

\* BASE.powf(exponent) at the exponents 0.0 and 1.0, where it is exact
Powf64(exponent) == IF exponent = DblFromInt(0) THEN DblFromInt(1) ELSE Base64

\* the fit-to-window transform of a resume
InitialTransform64(size, img) ==
    LET image_width == DblFromInt(img[1])
        image_height == DblFromInt(img[2])
        width == DblFromInt(size[1])
        height == DblFromInt(size[2])
        x_scale == DblDiv(width, image_width)
        y_scale == DblDiv(height, image_height)
        scale == DblMin(x_scale, y_scale)
    IN  Affine64Mul(
          Affine64Mul(
            Affine64Mul(
              Affine64Translate(<<DblDiv(width, DblFromInt(2)),
                                  DblDiv(height, DblFromInt(2))>>),
              Affine64Scale(scale)),
            Affine64Translate(Vec64Neg(<<DblDiv(image_width, DblFromInt(2)),
                                         DblDiv(image_height, DblFromInt(2))>>))),
          Affine64Identity)

\* translate(prior_position) * scale(BASE.powf(exponent)) * translate(-prior_position) * transform
ZoomTransform64(transform, prior_position, delta) ==
    Affine64Mul(
      Affine64Mul(
        Affine64Mul(Affine64Translate(prior_position),
                    Affine64Scale(Powf64(WheelExponent64(delta)))),
        Affine64Translate(Vec64Neg(prior_position))),
      transform)

\* Affine::translate(position - prior) * render_state.transform
DragTransform64(transform, position, prior) ==
    Affine64Mul(Affine64Translate(Vec64Sub(position, prior)), transform)

\* the direction of a direction key, None for every other key
NudgeDirection(keycode) ==
    IF keycode \in {"ArrowUp", "KeyK"} THEN Some("Up")
    ELSE IF keycode \in {"ArrowDown", "KeyJ"} THEN Some("Down")
    ELSE IF keycode \in {"ArrowLeft", "KeyH"} THEN Some("Left")
    ELSE IF keycode \in {"ArrowRight", "KeyL"} THEN Some("Right")
    ELSE None

\* mutant: Down nudges by the vector of Up
NudgeVector64DownIsUp(direction) ==
    IF direction \in {"Up", "Down"} THEN <<DblFromInt(0), DblFromInt(-NudgeStep)>>
    ELSE IF direction = "Left" THEN <<DblFromInt(-NudgeStep), DblFromInt(0)>>
    ELSE <<DblFromInt(NudgeStep), DblFromInt(0)>>

\* the translation of a direction: (0., -10.), (0., 10.), (-10., 0.), (10., 0.)
NudgeVector64(direction) ==
    IF direction = "Up" THEN <<DblFromInt(0), DblFromInt(-NudgeStep)>>
    ELSE IF direction = "Down" THEN <<DblFromInt(0), DblFromInt(NudgeStep)>>
    ELSE IF direction = "Left" THEN <<DblFromInt(-NudgeStep), DblFromInt(0)>>
    ELSE <<DblFromInt(NudgeStep), DblFromInt(0)>>

\* render_state.transform * Affine::translate(v)
NudgeTransform64(transform, v) == Affine64Mul(transform, Affine64Translate(v))

\* the history after a turn: a direction press lengthens the run (the last
\* four are kept), any other change of the transform ends it
NudgeRun(run, state, next, direction) ==
    IF state.tag = "Active" /\ IsSome(direction)
    THEN LET keys == Append(run.keys, Unwrap(direction))
             before == Append(run.before, state.transform)
             n == Len(keys)
         IN  IF n <= 4 THEN [keys |-> keys, before |-> before]
             ELSE [keys |-> SubSeq(keys, n - 3, n), before |-> SubSeq(before, n - 3, n)]
    ELSE IF next # state /\ (state.tag # "Active" \/ next.transform # state.transform)
         THEN NoNudges
    ELSE run

Running64 == nev < MaxEvents64

\* what no arm of Spec64 touches
Frame64 ==
    UNCHANGED <<render_state, renderers, devices, scene, subscene, control_flow,
                inner_size, image, windows, surfaces, decodes, exiting, crashed,
                ev, fx, pointer_left, suspended_transform>>

\* a turn of Spec64 that takes the session to `next`
Turn64(next, direction) ==
    /\ nev' = nev + 1
    /\ state64' = next
    /\ nudges' = NudgeRun(nudges, state64, next, direction)
    /\ Frame64

\* Event::Resumed: the first resume opens the default-size window
Resumed64 ==
    /\ Running64
    /\ UNCHANGED nwheel
    /\ Turn64(IF state64.tag = "Suspended"
              THEN RenderState64_Active(
                     InitialTransform64(<<DefaultWidth, DefaultHeight>>, image),
                     None, FALSE)
              ELSE state64, None)

\* WindowEvent::MouseInput
MouseInput64(element_state, button) ==
    /\ Running64
    /\ UNCHANGED nwheel
    /\ Turn64(IF state64.tag = "Active"
              THEN MouseInputState(state64, element_state, button)
              ELSE state64, None)

\* WindowEvent::CursorMoved
CursorMoved64(p) ==
    /\ Running64
    /\ UNCHANGED nwheel
    /\ Turn64(IF state64.tag = "Active"
              THEN LET position == <<DblFromInt(p[1]), DblFromInt(p[2])>>
                   IN  [state64 EXCEPT
                          !.transform =
                             IF state64.mouse_down /\ IsSome(state64.prior_position)
                             THEN DragTransform64(state64.transform, position,
                                                  Unwrap(state64.prior_position))
                             ELSE state64.transform,
                          !.prior_position = Some(position)]
              ELSE state64, None)

\* WindowEvent::MouseWheel
MouseWheel64(delta) ==
    /\ Running64
    /\ IF state64.tag = "Active" /\ WheelZooms(state64)
       THEN /\ nwheel < MaxWheel64
            /\ nwheel' = nwheel + 1
            /\ Turn64([state64 EXCEPT !.transform =
                         ZoomTransform64(state64.transform,
                                         Unwrap(state64.prior_position), delta)],
                      None)
       ELSE /\ UNCHANGED nwheel
            /\ Turn64(state64, None)

\* WindowEvent::KeyboardInput: a press of a direction key nudges
KeyboardInput64(element_state, keycode) ==
    /\ Running64
    /\ UNCHANGED nwheel
    /\ IF state64.tag = "Active" /\ element_state = "Pressed"
          /\ IsSome(NudgeDirection(keycode))
       THEN Turn64([state64 EXCEPT !.transform =
                      NudgeTransform64(state64.transform,
                        NudgeVector64(Unwrap(NudgeDirection(keycode))))],
                   NudgeDirection(keycode))
       ELSE Turn64(state64, None)

Next64 ==
    \/ Resumed64
    \/ \E s \in ElementStates, b \in MouseButtons : MouseInput64(s, b)
    \/ \E p \in Positions64 : CursorMoved64(p)
    \/ \E d \in WheelDeltas64 : MouseWheel64(d)
    \/ \E s \in ElementStates, k \in KeyCodes64 : KeyboardInput64(s, k)

Spec64 == Init /\ [][Next64]_vars

(***************************************************************************)
(* Properties                                                              *)
(***************************************************************************)
WindowEventKinds == {"MouseInput", "MouseWheel", "CursorLeft", "CursorMoved",
                     "KeyboardInput", "CloseRequested", "Resized",
                     "RedrawRequested", "Other"}

\* the step delivers one event (it is not a stuttering step)
Turn == nev' = nev + 1

\* the step delivers a window event
WindowTurn == Turn /\ ev'.kind \in WindowEventKinds

\* the uniform scale factor of the view transform
ScaleOf(transform) == transform[1]

\* C1: a window event that arrives while the session is Suspended, or that
\* carries a window id other than the Active session's window, is dropped:
\* the phase, the transform, prior_position and mouse_down are unchanged and
\* no redraw is requested, no frame is rendered and no exit is requested.
C1_StaleEventDropped ==
    [][ ( /\ WindowTurn
          /\ \/ render_state.tag = "Suspended"
             \/ render_state.window # ev'.window_id )
        => /\ render_state' = render_state
           /\ scene' = scene
           /\ exiting' = exiting
           /\ ~fx'.request_redraw /\ ~fx'.render /\ ~fx'.exit ]_vars

\* a pointer move addressed to another window reached the Active session
C1_Witness ==
    /\ ev.kind = "CursorMoved"
    /\ render_state.tag = "Active"
    /\ ev.window_id # render_state.window
    /\ ~ev.handled

\* C2: whenever the session is Active (so whenever a redraw is processed)
\* its surface is the one the latest resume created, on a device of the
\* render context, and the renderer cache holds a renderer for that device;
\* a processed redraw never panics on an absent renderer.
C2_RendererForSurface ==
    /\ (ev.kind = "RedrawRequested" /\ ev.handled) => render_state.tag = "Active"
    /\ render_state.tag = "Active" =>
         /\ render_state.surface.id = surfaces
         /\ render_state.surface.dev_id < devices
         /\ Len(renderers) = devices
         /\ renderers[render_state.surface.dev_id + 1]
    /\ (ev.kind = "RedrawRequested" /\ ev.handled /\ crashed) => ~fx.render

\* a frame was rendered on the surface of a second resume, on a second device
C2_Witness ==
    /\ ev.kind = "RedrawRequested" /\ ev.handled /\ fx.render
    /\ surfaces = 2
    /\ render_state.surface.dev_id = 1

\* C3: a suspend of an Active session retains its window; the resume that
\* follows reuses that window, creates no window and creates a new surface;
\* at most one window is ever created.
C3_WindowReused ==
    [][ /\ (Turn /\ ev'.kind = "Suspended" /\ ev'.handled)
           => render_state' = [tag |-> "Suspended",
                               cached_window |-> <<render_state.window>>]
        /\ ( /\ Turn /\ ev'.kind = "Resumed" /\ ev'.handled /\ ~crashed'
             /\ render_state.cached_window # <<>> )
           => /\ render_state'.window = render_state.cached_window[1]
              /\ windows' = windows /\ ~fx'.create_window
              /\ fx'.create_surface
              /\ surfaces' = surfaces + 1
              /\ render_state'.surface.id = surfaces'
        /\ windows' <= 1 ]_vars

\* a second resume made the session Active again
C3_Witness ==
    /\ ev.kind = "Resumed" /\ ev.handled
    /\ render_state.tag = "Active"
    /\ surfaces = 2
    /\ windows = 1

\* C4: the document is decoded once per process: open_image is called at
\* most once, and a second or later resume does not call it.
C4_DecodedOnce ==
    /\ decodes <= 1
    /\ (ev.kind = "Resumed" /\ ev.handled /\ surfaces >= 2) => ~fx.open_image

\* C5: a resume after a suspend yields an Active state whose transform is
\* the transform the session had when it was suspended.
C5_TransformSurvivesSuspend ==
    ( /\ ev.kind = "Resumed" /\ ev.handled
      /\ render_state.tag = "Active"
      /\ suspended_transform # <<>> )
    => render_state.transform = suspended_transform[1]

\* C6: in every Active state the view transform is invertible, with a
\* strictly positive uniform scale factor.
C6_TransformInvertible ==
    render_state.tag = "Active" =>
        /\ ScaleOf(render_state.transform)[1] > 0
        /\ AffineDeterminant(render_state.transform) # Zero

\* C7: every event handled in Active phase that changes the view transform
\* also requests a redraw in the same turn.
C7_TransformChangeRedraws ==
    [][ ( /\ WindowTurn /\ ev'.handled
          /\ render_state'.transform # render_state.transform )
        => fx'.request_redraw ]_vars

\* a direction-key press was handled and requested a redraw
C7_Witness ==
    /\ ev.kind = "KeyboardInput" /\ ev.handled
    /\ ev.arg = <<"Pressed", "ArrowUp">>
    /\ fx.request_redraw
    /\ ScaleOf(render_state.transform) # Zero

\* C8: a button press or release, a pointer leave, and a pointer move while
\* the button is up or prior_position is undefined, handled in Active
\* phase, request no redraw.
C8_InteractionOnlyNoRedraw ==
    [][ ( /\ WindowTurn /\ ev'.handled
          /\ \/ ev'.kind \in {"MouseInput", "CursorLeft"}
             \/ /\ ev'.kind = "CursorMoved"
                /\ \/ ~render_state.mouse_down
                   \/ render_state.prior_position = <<>>
          /\ render_state'.transform = render_state.transform )
        => ~fx'.request_redraw ]_vars

\* C9: a wheel event handled in Active phase while prior_position is
\* undefined changes nothing and requests no redraw, for every delta.
C9_WheelWithoutPivotNoop ==
    [][ ( /\ Turn /\ ev'.kind = "MouseWheel" /\ ev'.handled
          /\ render_state.prior_position = <<>> )
        => /\ render_state' = render_state
           /\ ~fx'.request_redraw ]_vars

\* a wheel event was handled in an Active session that has no pivot
C9_Witness ==
    /\ ev.kind = "MouseWheel" /\ ev.handled
    /\ ev.arg.type = "PixelDelta"
    /\ render_state.prior_position = <<>>

\* C10: after a handled pointer leave, a wheel event handled before the
\* next handled pointer move leaves the transform unchanged, whatever was
\* delivered in between.
C10_WheelAfterLeaveNoop ==
    [][ ( /\ Turn /\ ev'.kind = "MouseWheel" /\ ev'.handled
          /\ pointer_left )
        => render_state'.transform = render_state.transform ]_vars

\* a wheel event was the fourth event of the run, handled after a pointer
\* leave with no pointer move since
C10_Witness ==
    /\ ev.kind = "MouseWheel" /\ ev.handled
    /\ pointer_left
    /\ nev = 4
    /\ ~fx.request_redraw

\* document points the transforms are compared on
TestPoints == { <<F64(0), F64(0)>>, <<F64(1), F64(0)>>, <<F64(0), F64(1)>>,
                <<F64(100), F64(50)>> }

VecAdd(p, q) == <<RAdd(p[1], q[1]), RAdd(p[2], q[2])>>
VecScale(k, p) == <<RMul(k, p[1]), RMul(k, p[2])>>
RInv(x) == Rat(x[2], x[1])

\* the position of an event as a Vec2
EventPosition(arg) == <<F64(arg[1]), F64(arg[2])>>

\* the fit-to-window transform of the window's current size
FitTransform == InitialTransform(inner_size, image)

\* C11: a pointer move to p handled with the button down and
\* prior_position = p0 replaces the transform T by translate(p - p0) * T:
\* the linear part is unchanged and the image of every point moves by
\* exactly p - p0, whatever the scale of T; from the identity a drag by
\* (5,-3) maps (0,0) to (5,-3).
C11_DragComposesOnLeft ==
    [][ ( /\ Turn /\ ev'.kind = "CursorMoved" /\ ev'.handled
          /\ render_state.mouse_down
          /\ render_state.prior_position # <<>> )
        => LET T == render_state.transform
               U == render_state'.transform
               v == VecSub(EventPosition(ev'.arg), render_state.prior_position[1])
           IN  /\ U = AffineMul(AffineTranslate(v), T)
               /\ <<U[1], U[2], U[3], U[4]>> = <<T[1], T[2], T[3], T[4]>>
               /\ \A q \in TestPoints :
                    AffineApply(U, q) = VecAdd(AffineApply(T, q), v)
               /\ AffineApply(DragTransform(AffineIdentity,
                                            <<F64(5), F64(-3)>>, <<Zero, Zero>>),
                              <<Zero, Zero>>) = <<F64(5), F64(-3)>> ]_vars

\* a drag from (0,0) to (5,-3) moved the fitted document, whose scale is
\* not 1, by (5,-3)
C11_Witness ==
    /\ ev.kind = "CursorMoved" /\ ev.handled /\ ev.arg = <<5, -3>>
    /\ render_state.mouse_down
    /\ ScaleOf(render_state.transform) # One
    /\ render_state.transform =
         AffineMul(AffineTranslate(<<F64(5), F64(-3)>>), FitTransform)

\* C12 as claimed: a wheel event handled with pivot p leaves the image of
\* p under the transform unchanged, T'(p) = T(p).
C12_PivotImageUnchanged ==
    [][ ( /\ Turn /\ ev'.kind = "MouseWheel" /\ ev'.handled
          /\ render_state.prior_position # <<>> )
        => AffineApply(render_state'.transform, render_state.prior_position[1])
           = AffineApply(render_state.transform, render_state.prior_position[1]) ]_vars

\* C12 as amended: a wheel event handled with pivot p holds the window
\* point p fixed: the document point q that T shows at p (T(q) = p) is
\* still shown at p, T'(q) = p, and every other point's distance from p on
\* screen is multiplied by the zoom factor, T'(q) - p = f * (T(q) - p).
C12_PivotFixedOnScreen ==
    [][ ( /\ Turn /\ ev'.kind = "MouseWheel" /\ ev'.handled
          /\ render_state.prior_position # <<>> )
        => LET T == render_state.transform
               U == render_state'.transform
               p == render_state.prior_position[1]
               f == Powf(WheelExponent(ev'.arg))
               q == << RMul(RSub(p[1], T[5]), RInv(T[1])),
                       RMul(RSub(p[2], T[6]), RInv(T[4])) >>
           IN  /\ T[2] = Zero /\ T[3] = Zero
               /\ (T[1] # Zero /\ T[4] # Zero)
                    => AffineApply(T, q) = p /\ AffineApply(U, q) = p
               /\ \A r \in TestPoints :
                    VecSub(AffineApply(U, r), p)
                      = VecScale(f, VecSub(AffineApply(T, r), p)) ]_vars

\* a line of wheel zoom about the pivot (5,-3) changed the scale of the
\* fitted document
C12_Witness ==
    /\ ev.kind = "MouseWheel" /\ ev.handled /\ fx.request_redraw
    /\ ev.arg = [type |-> "LineDelta", y |-> 1]
    /\ render_state.prior_position = << <<F64(5), F64(-3)>> >>
    /\ ScaleOf(render_state.transform) = RMul(ScaleOf(FitTransform), Rat(BaseNum, BaseDen))

\* the document-space vector of a direction key
DirectionOf(keycode) ==
    CASE keycode \in {"ArrowUp", "KeyK"} -> <<F64(0), F64(-10)>>
      [] keycode \in {"ArrowDown", "KeyJ"} -> <<F64(0), F64(10)>>
      [] keycode \in {"ArrowLeft", "KeyH"} -> <<F64(-10), F64(0)>>
      [] keycode \in {"ArrowRight", "KeyL"} -> <<F64(10), F64(0)>>

DirectionKeys == {"ArrowUp", "KeyK", "ArrowDown", "KeyJ",
                  "ArrowLeft", "KeyH", "ArrowRight", "KeyL"}

\* C13: a direction-key press handled in Active phase replaces T by
\* T * translate(v), v the key's 10-unit vector: the linear part is
\* unchanged and every point moves on screen by the linear part of T
\* applied to v, 10 times T's scale; a key release changes nothing.
C13_NudgeComposesOnRight ==
    [][ ( /\ Turn /\ ev'.kind = "KeyboardInput" /\ ev'.handled )
        => LET T == render_state.transform
               U == render_state'.transform
               k == ev'.arg[2]
           IN  /\ (ev'.arg[1] = "Pressed" /\ k \in DirectionKeys) =>
                    LET v == DirectionOf(k)
                        d == VecScale(ScaleOf(T), v)
                    IN  /\ U = AffineMul(T, AffineTranslate(v))
                        /\ <<U[1], U[2], U[3], U[4]>> = <<T[1], T[2], T[3], T[4]>>
                        /\ \A q \in TestPoints :
                             AffineApply(U, q) = VecAdd(AffineApply(T, q), d)
                        /\ fx'.request_redraw
               /\ ev'.arg[1] = "Released" =>
                    /\ render_state' = render_state
                    /\ fx' = NoFx ]_vars

\* KeyL was pressed on the fitted document, whose scale is not 1, and
\* moved it right by 10 times the scale
C13_Witness ==
    /\ ev.kind = "KeyboardInput" /\ ev.handled /\ ev.arg = <<"Pressed", "KeyL">>
    /\ ScaleOf(render_state.transform) \notin {Zero, One}
    /\ render_state.transform[5]
         = RAdd(FitTransform[5], RMul(F64(10), ScaleOf(FitTransform)))

\* the direction that undoes a direction
Opposite(direction) ==
    CASE direction = "Up" -> "Down" [] direction = "Down" -> "Up"
      [] direction = "Left" -> "Right" [] direction = "Right" -> "Left"

\* the transform found by the first of the last n presses of the run
BeforeLast(n) == nudges.before[Len(nudges.before) - n + 1]

\* the run ends with a nudge followed by its exact opposite
EndsWithOppositePair ==
    /\ Len(nudges.keys) >= 2
    /\ nudges.keys[Len(nudges.keys)] = Opposite(nudges.keys[Len(nudges.keys) - 1])

\* the run ends with one up, one down, one left and one right, in any order
EndsWithAllFour ==
    /\ Len(nudges.keys) = 4
    /\ {nudges.keys[i] : i \in 1..4} = {"Up", "Down", "Left", "Right"}

\* |x - y| <= 2^-49 * (|T.e| + |T.f| + 10 * (|T.a| + |T.b| + |T.c| + |T.d|)):
\* the rounding four nudges from T can leave in a translation coefficient
WithinRounding(x, y, T) ==
    XLeq(XAbs(XSub(x, y)),
         XScale2(XAdd(XAdd(XAbs(T[5]), XAbs(T[6])),
                      XMul(XInt(NudgeStep),
                           XAdd(XAdd(XAbs(T[1]), XAbs(T[2])),
                                XAdd(XAbs(T[3]), XAbs(T[4]))))),
                 4 - DblMantissaBits))

\* U has the linear part of T and its translation up to rounding
SameUpToRounding(U, T) ==
    /\ \A i \in 1..4 : U[i] = T[i]
    /\ WithinRounding(U[5], T[5], T)
    /\ WithinRounding(U[6], T[6], T)

\* C14 as stated: four consecutive direction-key presses, one up, one down,
\* one left and one right in any order, with no other transform-changing
\* event between them, return the transform to the T they started from, and
\* so does a single nudge followed by its exact opposite.
C14_NudgeRoundTripExact ==
    /\ EndsWithOppositePair => state64.transform = BeforeLast(2)
    /\ EndsWithAllFour => state64.transform = BeforeLast(4)

\* C14 amended: such a run returns the linear part of the transform exactly
\* and its translation up to floating-point rounding (equal in exact
\* arithmetic, within a few units in the last place in f64).
C14_NudgeRoundTripUpToRounding ==
    /\ EndsWithOppositePair => SameUpToRounding(state64.transform, BeforeLast(2))
    /\ EndsWithAllFour => SameUpToRounding(state64.transform, BeforeLast(4))

\* after a zoom the four directions were pressed in a row and left the
\* transform a rounding error away from the one they started from
C14_Witness ==
    /\ nwheel > 0
    /\ EndsWithAllFour
    /\ state64.transform # BeforeLast(4)
    /\ SameUpToRounding(state64.transform, BeforeLast(4))

RLeq(x, y) == ~RLess(y, x)

\* the step is a resume that entered Active with a window of positive size
ResumeFits ==
    /\ Turn /\ ev'.kind = "Resumed" /\ ev'.handled
    /\ render_state'.tag = "Active"
    /\ inner_size'[1] > 0 /\ inner_size'[2] > 0

\* C15: a resume with a document of size dw x dh and a window of positive
\* physical size w x h leaves a uniform scale by min(w/dw, h/dh) that maps
\* the document center to the window center, so the document rectangle lies
\* inside the window and touches it along the limiting dimension; 200x100
\* in 1044x800 gives scale 5.22 and center (522, 400).
C15_FitToWindow ==
    [][ ResumeFits
        => LET T == render_state'.transform
               w == F64(inner_size'[1])
               h == F64(inner_size'[2])
               dw == F64(image[1])
               dh == F64(image[2])
               x_ratio == RMul(w, RInv(dw))
               y_ratio == RMul(h, RInv(dh))
               lo == AffineApply(T, <<Zero, Zero>>)
               hi == AffineApply(T, <<dw, dh>>)
           IN  /\ T[1] = RMin(x_ratio, y_ratio) /\ T[4] = T[1]
               /\ T[2] = Zero /\ T[3] = Zero
               /\ AffineApply(T, <<RMul(dw, Rat(1, 2)), RMul(dh, Rat(1, 2))>>)
                    = <<RMul(w, Rat(1, 2)), RMul(h, Rat(1, 2))>>
               /\ RLeq(Zero, lo[1]) /\ RLeq(Zero, lo[2])
               /\ RLeq(hi[1], w) /\ RLeq(hi[2], h)
               /\ RLeq(x_ratio, y_ratio) => (lo[1] = Zero /\ hi[1] = w)
               /\ RLeq(y_ratio, x_ratio) => (lo[2] = Zero /\ hi[2] = h)
               /\ (image = <<200, 100>> /\ inner_size' = <<DefaultWidth, DefaultHeight>>)
                    => /\ T[1] = Rat(522, 100)
                       /\ AffineApply(T, <<F64(100), F64(50)>>) = <<F64(522), F64(400)>> ]_vars

\* the 200x100 document was fitted to the 1044x800 window, limited by the width
C15_Witness ==
    /\ ev.kind = "Resumed" /\ ev.handled
    /\ render_state.tag = "Active"
    /\ image = <<200, 100>>
    /\ inner_size = <<DefaultWidth, DefaultHeight>>
    /\ render_state.transform = <<Rat(261, 50), Zero, Zero, Rat(261, 50), Zero, F64(139)>>

\* C16: a lifecycle signal that does not match the phase leaves the phase
\* alone: a resume while Active changes neither surface, window, transform
\* nor interaction state and creates no window or surface; a suspend while
\* Suspended keeps the retained window handle, present or absent; the
\* initial phase is Suspended(None).
C16_UnmatchedLifecycleNoop ==
    /\ render_state = RenderState_Suspended(None)
    /\ [][ /\ ( Turn /\ ev'.kind = "Resumed" /\ render_state.tag = "Active" )
              => /\ render_state' = render_state
                 /\ windows' = windows /\ surfaces' = surfaces
                 /\ ~fx'.create_window /\ ~fx'.create_surface
           /\ ( Turn /\ ev'.kind = "Suspended" /\ render_state.tag = "Suspended" )
              => render_state' = render_state ]_vars

\* a resume arrived while the session was Active with a pivot recorded
C16_Witness ==
    /\ ev.kind = "Resumed" /\ ~ev.handled
    /\ render_state.tag = "Active"
    /\ render_state.prior_position # None

\* C17: the pivot of a wheel event is the position of the most recent
\* pointer move handled since the last pointer leave or resume, button down
\* or not: a handled move to p leaves prior_position = p and mouse_down as
\* it was, no event but a move, a leave, a resume or a suspend changes
\* prior_position, and a handled wheel event zooms about prior_position.
C17_PivotIsLastMove ==
    [][ /\ ( Turn /\ ev'.kind = "CursorMoved" /\ ev'.handled )
           => /\ render_state'.prior_position = Some(EventPosition(ev'.arg))
              /\ render_state'.mouse_down = render_state.mouse_down
        /\ ( /\ Turn /\ render_state.tag = "Active"
             /\ ~ ( ev'.handled /\ ev'.kind \in {"CursorMoved", "CursorLeft"} )
             /\ ev'.kind \notin {"Resumed", "Suspended"} )
           => /\ render_state'.tag = "Active"
              /\ render_state'.prior_position = render_state.prior_position
        /\ ( /\ Turn /\ ev'.kind = "MouseWheel" /\ ev'.handled
             /\ render_state.prior_position # None )
           => LET T == render_state.transform
                  U == render_state'.transform
                  p == Unwrap(render_state.prior_position)
                  f == Powf(WheelExponent(ev'.arg))
              IN  /\ U[1] = RMul(f, T[1]) /\ U[4] = RMul(f, T[4])
                  /\ U[5] = RAdd(RMul(f, T[5]), RMul(RSub(One, f), p[1]))
                  /\ U[6] = RAdd(RMul(f, T[6]), RMul(RSub(One, f), p[2])) ]_vars

\* a move with the button down dragged the view and became the pivot
C17_Witness ==
    /\ ev.kind = "CursorMoved" /\ ev.handled
    /\ render_state.tag = "Active"
    /\ render_state.mouse_down
    /\ render_state.transform # FitTransform
    /\ render_state.prior_position = Some(EventPosition(ev.arg))

\* C18: the interaction state is not carried across suspend/resume: right
\* after every resume that enters Active prior_position is None and
\* mouse_down is false, whatever they were before the suspend, so a wheel
\* event or a pointer move that is the next event after the resume does
\* not change the transform.
C18_InteractionStateNotCarried ==
    [][ /\ ( Turn /\ ev'.kind = "Resumed" /\ ev'.handled /\ render_state'.tag = "Active" )
           => /\ render_state'.prior_position = None
              /\ render_state'.mouse_down = FALSE
        /\ ( /\ Turn /\ ev.kind = "Resumed" /\ ev.handled /\ render_state.tag = "Active"
             /\ ev'.kind \in {"MouseWheel", "CursorMoved"} )
           => /\ render_state'.tag = "Active"
              /\ render_state'.transform = render_state.transform ]_vars

\* a second session was entered, with no pivot and the button up
C18_Witness ==
    /\ ev.kind = "Resumed" /\ ev.handled
    /\ render_state.tag = "Active"
    /\ surfaces = 2
    /\ render_state.prior_position = None
    /\ ~render_state.mouse_down

\* C19: every frame submitted on a redraw contains the document exactly
\* once, under the current view transform: the cached drawable scene
\* appended to the reset scene holds a single copy of the document after
\* any number of suspend/resume cycles.
C19_FrameHoldsOneCopy ==
    /\ scene # None => Unwrap(scene).copies = 1
    /\ (ev.kind = "RedrawRequested" /\ ev.handled)
         => scene = RedrawScene(1, render_state.transform)

\* C20: an Escape key press or a close request handled in Active phase for
\* the session's window asks the event loop to exit and is not a transform
\* operation: the transform, prior_position and mouse_down are unchanged
\* and no redraw is requested.
C20_ExitKeepsView ==
    [][ ( /\ Turn /\ ev'.handled
          /\ \/ ev'.kind = "CloseRequested"
             \/ ev'.kind = "KeyboardInput" /\ ev'.arg = <<"Pressed", "Escape">> )
        => /\ render_state.tag = "Active" /\ render_state.window = ev'.window_id
           /\ exiting' /\ fx'.exit
           /\ render_state' = render_state
           /\ ~fx'.request_redraw /\ ~fx'.render ]_vars

\* Escape ended a session whose view had been moved and had a pivot
C20_Witness ==
    /\ ev.kind = "KeyboardInput" /\ ev.handled
    /\ ev.arg = <<"Pressed", "Escape">>
    /\ exiting /\ fx.exit
    /\ render_state.tag = "Active"
    /\ render_state.prior_position # None
    /\ render_state.transform # FitTransform

====
